---- MODULE Spec2Model ----
(***************************************************************************)
(* Model of the timing-diagram generators of test-goertzel-vhdl:           *)
(*   scripts/generate_waveforms.py  (generate_test_waveforms)              *)
(*   scripts/generate_diagram.py    (generate_diagram, generate_all_       *)
(*                                   diagrams, __main__)                   *)
(* One behaviour is one run of one of the two scripts.  Arrays are         *)
(* 1-indexed sequences: cycle i of the source is element i+1.              *)
(***************************************************************************)
EXTENDS Integers, Sequences, FiniteSets, TLC

VARIABLES prog, pc, at,
          freq_bin, sine_wave, dc_signal, data_valid, state, busy,
          data_valid_out, magnitude_out, title, axes, saved,
          have_pkgs, argv, fs, fs0, mode, queue, cur, out,
          exitcode, opened, processed, rasterFailed, loadFailed

wvars == <<freq_bin, sine_wave, dc_signal, data_valid, state, busy,
           data_valid_out, magnitude_out, title, axes, saved>>
dvars == <<at, have_pkgs, argv, fs, fs0, mode, queue, cur, out, exitcode,
           opened, processed, rasterFailed, loadFailed>>
vars == <<prog, pc, wvars, dvars>>

(* ---------------- bounds of the model ---------------- *)
MaxArgs == 4
MaxFiles == 2

(* ---------------- generate_waveforms.py ---------------- *)
N == 100
IDLE == 0
PROCESSING == 1
CALC == 2
TargetMagnitude == 229712

STATE_LABELS == <<"IDLE", "PROCESSING", "CALC">>

\* np.zeros(n)
Zeros(n) == [i \in 1..n |-> 0]

\* np.ones(n) * c
Ones(n, c) == [i \in 1..n |-> c]

\* a[lo:hi] = v  (0-based half-open slice, clipped to the array)
SliceAssign(a, lo, hi, v) ==
  [i \in 1..Len(a) |-> IF lo < i /\ i <= hi THEN v ELSE a[i]]

\* a[start::step] = v
StrideAssign(a, start, step, v) ==
  [i \in 1..Len(a) |-> IF i - 1 >= start /\ (i - 1 - start) % step = 0
                       THEN v ELSE a[i]]

\* a[:n]
Prefix(a, n) == [i \in 1..(IF n < Len(a) THEN n ELSE Len(a)) |-> a[i]]

\* a[idx] = v
IndexAssign(a, idx, v) == [a EXCEPT ![idx + 1] = v]

\* 1000 * np.sin(2*pi*k*t_samples/N): sample n is kept as the phase
\* numerator (k*n) mod N of its sine argument 2*pi*(k*n)/N.
SineWave(k) == [n \in 1..N |-> (k * (n - 1)) % N]

\* np.ones(N) * 500
DcSignal == Ones(N, 500)

\* variant: the cut to N samples is left out
GenDataValidNoTrunc == StrideAssign(Zeros(N * 2), 1, 2, 1)
\* variant: the strobe starts at index 0 instead of 1
GenDataValidEven == Prefix(StrideAssign(Zeros(N * 2), 0, 2, 1), N)
\* data_valid = np.zeros(N*2); data_valid[1::2] = 1; data_valid = data_valid[:N]
GenDataValid == Prefix(StrideAssign(Zeros(N * 2), 1, 2, 1), N)

\* variant: PROCESSING ends one cycle early
GenStateShort ==
  SliceAssign(SliceAssign(SliceAssign(SliceAssign(Zeros(N + 5),
      0, 2, IDLE), 2, N + 1, PROCESSING), N + 1, N + 3, CALC), N + 3, N + 5, IDLE)
\* state = np.zeros(N+5); state[0:2]=0; state[2:N+2]=1; state[N+2:N+3]=2; state[N+3:]=0
GenState ==
  SliceAssign(SliceAssign(SliceAssign(SliceAssign(Zeros(N + 5),
      0, 2, IDLE), 2, N + 2, PROCESSING), N + 2, N + 3, CALC), N + 3, N + 5, IDLE)

\* variant: busy drops before the CALC cycle
GenBusyShort == SliceAssign(Zeros(N + 5), 2, N + 2, 1)
\* busy = np.zeros(N+5); busy[2:N+3] = 1
GenBusy == SliceAssign(Zeros(N + 5), 2, N + 3, 1)

\* variant: the pulse comes one cycle late
GenDataValidOutLate == IndexAssign(Zeros(N + 5), N + 3, 1)
\* data_valid_out = np.zeros(N+5); data_valid_out[N+2] = 1
GenDataValidOut == IndexAssign(Zeros(N + 5), N + 2, 1)

\* variant: an array left by an earlier scenario is reused
GenMagnitudeStale(old, v) ==
  IF old = <<>> THEN SliceAssign(Zeros(N + 5), N + 2, N + 5, v) ELSE old
\* magnitude_out = np.zeros(N+5); magnitude_out[N+2:] = v
\* (old is the previous binding of magnitude_out, which the rebinding drops)
GenMagnitude(old, v) == SliceAssign(Zeros(N + 5), N + 2, N + 5, v)

\* one subplot of plt.subplots(num_signals, 1, sharex=True) before it is drawn
BlankAxis == [kind |-> "none", label |-> "", tlen |-> 0, values |-> <<>>,
              xlim |-> <<0, 1>>, yticklabels |-> <<>>, xlabel |-> ""]

\* setup_plot(title, num_signals)
SetupPlot(num_signals) == [i \in 1..num_signals |-> BlankAxis]

\* variant: the figure is built without sharex=True
SetXlimUnshared(axs, i, hi) == [axs EXCEPT ![i].xlim = <<0, hi>>]
\* ax.set_xlim(0, len(t)) on an axis of a sharex=True figure: the limits of
\* every axis of the figure follow
SetXlim(axs, i, hi) ==
  [j \in 1..Len(axs) |-> [axs[j] EXCEPT !.xlim = <<0, hi>>]]

\* plot_digital(ax, t, signal, label, color)
plot_digital(axs, i, tlen, signal, label) ==
  SetXlim([axs EXCEPT ![i] = [@ EXCEPT !.kind = "digital", !.label = label,
                                       !.tlen = tlen, !.values = signal]],
          i, tlen)

\* plot_analog(ax, t, signal, label, color, drawstyle)
plot_analog(axs, i, tlen, signal, label) ==
  SetXlim([axs EXCEPT ![i] = [@ EXCEPT !.kind = "analog", !.label = label,
                                       !.tlen = tlen, !.values = signal]],
          i, tlen)

\* plot_state(ax, t, state_values, state_labels, label)
plot_state(axs, i, tlen, state_values, state_labels, label) ==
  SetXlim([axs EXCEPT ![i] = [@ EXCEPT !.kind = "state", !.label = label,
                                       !.tlen = tlen, !.values = state_values,
                                       !.yticklabels = state_labels]],
          i, tlen)

\* one statement group of generate_test_waveforms
Ins(op, a, sig, xs, label, file) ==
  [op |-> op, a |-> a, sig |-> sig, xs |-> xs, label |-> label, file |-> file]

\* the six panels of a per-frequency diagram
SixPanels(analog_in, in_label, mag_label) ==
  << Ins("plot_digital", 0, "data_valid", "range", "data_valid_in", ""),
     Ins("plot_analog", 1, analog_in, "t_samples", in_label, ""),
     Ins("plot_state", 2, "state", "range", "FSM State", ""),
     Ins("plot_digital", 3, "busy", "range", "busy", ""),
     Ins("plot_digital", 4, "data_valid_out", "range", "data_valid_out", ""),
     Ins("plot_analog", 5, "magnitude_out", "range", mag_label, "") >>

\* the body of generate_test_waveforms from "Test 1" on, in program order
Script ==
  << Ins("sine", 10, "", "", "", ""),
     Ins("data_valid", 0, "", "", "", ""),
     Ins("state", 0, "", "", "", ""),
     Ins("busy", 0, "", "", "", ""),
     Ins("data_valid_out", 0, "", "", "", ""),
     Ins("magnitude", TargetMagnitude, "", "", "", ""),
     Ins("setup", 6, "", "", "Test 1: Target Frequency - INSIDE Bin", "") >>
  \o SixPanels("sine_wave", "data_in (Analog)", "magnitude_out (0x38150)")
  \o << Ins("save", 5, "", "", "", "build/timing_diagram_target_freq.png"),
        Ins("sine", 5, "", "", "", ""),
        Ins("magnitude", 0, "", "", "", ""),
        Ins("setup", 6, "", "", "Test 2: Off-Target Frequency - OUTSIDE Bin", "") >>
  \o SixPanels("sine_wave", "data_in (Analog)", "magnitude_out (0x00000)")
  \o << Ins("save", 5, "", "", "", "build/timing_diagram_off_target.png"),
        Ins("dc", 0, "", "", "", ""),
        Ins("magnitude", 0, "", "", "", ""),
        Ins("setup", 6, "", "", "Test 3: DC Signal (k=0) - OUTSIDE Bin", "") >>
  \o SixPanels("dc_signal", "data_in (DC Constant)", "magnitude_out (0x00000)")
  \o << Ins("save", 5, "", "", "", "build/timing_diagram_dc.png"),
        Ins("sine", 10, "", "", "", ""),
        Ins("setup", 4, "", "", "Complete Operation Overview (N=100, k=10)", ""),
        Ins("plot_digital", 0, "data_valid", "range", "data_valid_in", ""),
        Ins("plot_state", 1, "state", "range", "FSM State", ""),
        Ins("plot_digital", 2, "busy", "range", "busy", ""),
        Ins("plot_digital", 3, "data_valid_out", "range", "data_valid_out", ""),
        Ins("save", 3, "", "", "", "build/timing_diagram_overview.png") >>

\* the array a panel statement names, as bound when the statement runs
Signal(name) ==
  CASE name = "data_valid" -> data_valid
    [] name = "sine_wave" -> sine_wave
    [] name = "dc_signal" -> dc_signal
    [] name = "state" -> state
    [] name = "busy" -> busy
    [] name = "data_valid_out" -> data_valid_out
    [] name = "magnitude_out" -> magnitude_out

\* len(t) of the time base handed to a plot call
TimeLen(ins) == IF ins.xs = "t_samples" THEN N ELSE Len(Signal(ins.sig))

AtOp(op) == prog = "waveforms" /\ pc \in 1..Len(Script) /\ Script[pc].op = op

GenSineStep ==
  /\ AtOp("sine")
  /\ freq_bin' = Script[pc].a
  /\ sine_wave' = SineWave(Script[pc].a)
  /\ pc' = pc + 1
  /\ UNCHANGED <<prog, dc_signal, data_valid, state, busy, data_valid_out,
                 magnitude_out, title, axes, saved, dvars>>

GenDcStep ==
  /\ AtOp("dc")
  /\ dc_signal' = DcSignal
  /\ pc' = pc + 1
  /\ UNCHANGED <<prog, freq_bin, sine_wave, data_valid, state, busy,
                 data_valid_out, magnitude_out, title, axes, saved, dvars>>

GenDataValidStep ==
  /\ AtOp("data_valid")
  /\ data_valid' = GenDataValid
  /\ pc' = pc + 1
  /\ UNCHANGED <<prog, freq_bin, sine_wave, dc_signal, state, busy,
                 data_valid_out, magnitude_out, title, axes, saved, dvars>>

GenStateStep ==
  /\ AtOp("state")
  /\ state' = GenState
  /\ pc' = pc + 1
  /\ UNCHANGED <<prog, freq_bin, sine_wave, dc_signal, data_valid, busy,
                 data_valid_out, magnitude_out, title, axes, saved, dvars>>

GenBusyStep ==
  /\ AtOp("busy")
  /\ busy' = GenBusy
  /\ pc' = pc + 1
  /\ UNCHANGED <<prog, freq_bin, sine_wave, dc_signal, data_valid, state,
                 data_valid_out, magnitude_out, title, axes, saved, dvars>>

GenDataValidOutStep ==
  /\ AtOp("data_valid_out")
  /\ data_valid_out' = GenDataValidOut
  /\ pc' = pc + 1
  /\ UNCHANGED <<prog, freq_bin, sine_wave, dc_signal, data_valid, state,
                 busy, magnitude_out, title, axes, saved, dvars>>

GenMagnitudeStep ==
  /\ AtOp("magnitude")
  /\ magnitude_out' = GenMagnitude(magnitude_out, Script[pc].a)
  /\ pc' = pc + 1
  /\ UNCHANGED <<prog, freq_bin, sine_wave, dc_signal, data_valid, state,
                 busy, data_valid_out, title, axes, saved, dvars>>

SetupPlotStep ==
  /\ AtOp("setup")
  /\ axes' = SetupPlot(Script[pc].a)
  /\ title' = Script[pc].label
  /\ pc' = pc + 1
  /\ UNCHANGED <<prog, freq_bin, sine_wave, dc_signal, data_valid, state,
                 busy, data_valid_out, magnitude_out, saved, dvars>>

PlotDigitalStep ==
  /\ AtOp("plot_digital")
  /\ axes' = plot_digital(axes, Script[pc].a + 1, TimeLen(Script[pc]),
                          Signal(Script[pc].sig), Script[pc].label)
  /\ pc' = pc + 1
  /\ UNCHANGED <<prog, freq_bin, sine_wave, dc_signal, data_valid, state,
                 busy, data_valid_out, magnitude_out, title, saved, dvars>>

PlotAnalogStep ==
  /\ AtOp("plot_analog")
  /\ axes' = plot_analog(axes, Script[pc].a + 1, TimeLen(Script[pc]),
                         Signal(Script[pc].sig), Script[pc].label)
  /\ pc' = pc + 1
  /\ UNCHANGED <<prog, freq_bin, sine_wave, dc_signal, data_valid, state,
                 busy, data_valid_out, magnitude_out, title, saved, dvars>>

PlotStateStep ==
  /\ AtOp("plot_state")
  /\ axes' = plot_state(axes, Script[pc].a + 1, TimeLen(Script[pc]),
                        Signal(Script[pc].sig), STATE_LABELS, Script[pc].label)
  /\ pc' = pc + 1
  /\ UNCHANGED <<prog, freq_bin, sine_wave, dc_signal, data_valid, state,
                 busy, data_valid_out, magnitude_out, title, saved, dvars>>

\* axes[a].set_xlabel(...); plt.tight_layout(); plt.savefig(file); plt.close()
SaveFigStep ==
  /\ AtOp("save")
  /\ saved' = Append(saved,
       [file |-> Script[pc].file, title |-> title,
        panels |-> [axes EXCEPT ![Script[pc].a + 1].xlabel = "Sample Number"]])
  /\ axes' = <<>>
  /\ pc' = pc + 1
  /\ UNCHANGED <<prog, freq_bin, sine_wave, dc_signal, data_valid, state,
                 busy, data_valid_out, magnitude_out, title, dvars>>

(* ---------------- generate_diagram.py ---------------- *)
\* fs maps each path to what is on disk, fs0 is fs as it was when the script
\* started, opened is the set of files read, out the printed lines, and
\* exitcode the exit status once at = "exit".

\* A path.  Stem i >= 1 in docs stands for the name "timing_diagram<i>",
\* stem 0 for a name that does not start with "timing_diagram".
Path(dir, stem, ext) == [dir |-> dir, stem |-> stem, ext |-> ext]
NoPath == Path("", 0, "")

Stems == 0..MaxFiles
Paths == {Path(d, i, e) : d \in {"docs", "build"}, i \in Stems,
                          e \in {"json", "svg", "png"}}
JsonDocs == {Path("docs", i, "json") : i \in Stems}

\* values a command-line argument takes in the model
ArgPaths == {Path("docs", 1, "json"), Path("docs", 1, "svg"),
             Path("build", 1, "png")}

Absent == [fmt |-> "absent", from |-> NoPath]
Orig == [fmt |-> "orig", from |-> NoPath]
Written(fmt, src) == [fmt |-> fmt, from |-> src]

\* Path(p).exists()
Exists(files, p) == p \in DOMAIN files /\ files[p].fmt # "absent"

\* glob.glob(f"{docs_dir}/timing_diagram*.json")
Glob(files, docs_dir) ==
  {p \in DOMAIN files : /\ Exists(files, p)
                        /\ p.dir = docs_dir /\ p.ext = "json" /\ p.stem >= 1}

\* sorted(json_files): the globbed names differ only in their stem
RECURSIVE Sorted(_)
Sorted(S) ==
  IF S = {} THEN <<>>
  ELSE LET m == CHOOSE x \in S : \A y \in S : x.stem <= y.stem
       IN <<m>> \o Sorted(S \ {m})

Msg(text, arg) == [text |-> text, arg |-> arg]

\* the if / elif / else of __main__ on len(sys.argv)
Dispatch(argc) ==
  IF argc = 1 THEN "batch"
  ELSE IF argc >= 3 THEN "single"
  ELSE "usage"

\* the try: import wavedrom / cairosvg block succeeds
ImportOk ==
  /\ prog = "diagram" /\ at = "import" /\ have_pkgs
  /\ at' = "main"
  /\ UNCHANGED <<prog, pc, wvars, have_pkgs, argv, fs0, fs, mode, queue, cur, out,
                 exitcode, opened, processed, rasterFailed, loadFailed>>

\* except ImportError: print the hint, sys.exit(1)
ImportFail ==
  /\ prog = "diagram" /\ at = "import" /\ ~have_pkgs
  /\ out' = out \o <<Msg("ERROR: Required packages not installed.", NoPath),
                     Msg("Install with: pip3 install wavedrom cairosvg", NoPath)>>
  /\ exitcode' = 1
  /\ at' = "exit"
  /\ UNCHANGED <<prog, pc, wvars, have_pkgs, argv, fs0, fs, mode, queue, cur,
                 opened, processed, rasterFailed, loadFailed>>

\* __main__, len(sys.argv) == 1: generate_all_diagrams("docs", "build")
MainBatch ==
  /\ prog = "diagram" /\ at = "main"
  /\ Dispatch(Len(argv) + 1) = "batch"
  /\ mode' = "batch"
  /\ at' = "glob"
  /\ UNCHANGED <<prog, pc, wvars, have_pkgs, argv, fs0, fs, queue, cur, out,
                 exitcode, opened, processed, rasterFailed, loadFailed>>

\* variant: the existence test is left out
SingleNoCheck(json_file) == TRUE
\* the guard of the call in single-file mode: Path(json_file).exists()
SingleInputOk(json_file) == Exists(fs, json_file)

\* __main__, single-file mode
MainSingle ==
  /\ prog = "diagram" /\ at = "main"
  /\ Dispatch(Len(argv) + 1) = "single"
  /\ mode' = "single"
  /\ LET json_file == argv[1]
         output_svg == argv[2]
         output_png == IF Len(argv) + 1 > 3 THEN argv[3] ELSE NoPath
     IN IF ~SingleInputOk(json_file)
        THEN /\ out' = Append(out, Msg("ERROR: Input file not found", json_file))
             /\ exitcode' = 1
             /\ at' = "exit"
             /\ UNCHANGED cur
        ELSE /\ cur' = [json |-> json_file, svg |-> output_svg, png |-> output_png]
             /\ at' = "gd_load"
             /\ UNCHANGED <<out, exitcode>>
  /\ UNCHANGED <<prog, pc, wvars, have_pkgs, argv, fs0, fs, queue, opened,
                 processed, rasterFailed, loadFailed>>

\* __main__, else branch: usage, sys.exit(1)
MainUsage ==
  /\ prog = "diagram" /\ at = "main"
  /\ Dispatch(Len(argv) + 1) = "usage"
  /\ mode' = "usage"
  /\ out' = Append(out, Msg("Usage:", NoPath))
  /\ exitcode' = 1
  /\ at' = "exit"
  /\ UNCHANGED <<prog, pc, wvars, have_pkgs, argv, fs0, fs, queue, cur, opened,
                 processed, rasterFailed, loadFailed>>

\* generate_all_diagrams up to the loop
GlobStep ==
  /\ prog = "diagram" /\ at = "glob"
  /\ LET json_files == Glob(fs, "docs")
     IN IF json_files = {}
        THEN /\ out' = Append(out, Msg("ERROR: No timing diagram files found", NoPath))
             /\ exitcode' = 1
             /\ at' = "exit"
             /\ UNCHANGED queue
        ELSE /\ out' = Append(out, Msg("Found diagram(s) to generate", NoPath))
             /\ queue' = Sorted(json_files)
             /\ at' = "loop"
             /\ UNCHANGED exitcode
  /\ UNCHANGED <<prog, pc, wvars, have_pkgs, argv, fs0, fs, mode, cur, opened,
                 processed, rasterFailed, loadFailed>>

\* one iteration header of "for json_file in sorted(json_files)"
LoopNext ==
  /\ prog = "diagram" /\ at = "loop" /\ queue # <<>>
  /\ LET json_file == Head(queue)
     IN /\ cur' = [json |-> json_file,
                   svg |-> Path("docs", json_file.stem, "svg"),
                   png |-> Path("build", json_file.stem, "png")]
        /\ out' = Append(out, Msg("Processing", json_file))
  /\ queue' = Tail(queue)
  /\ at' = "gd_load"
  /\ UNCHANGED <<prog, pc, wvars, have_pkgs, argv, fs0, fs, mode, exitcode, opened,
                 processed, rasterFailed, loadFailed>>

\* the loop is exhausted: success message, normal end of the script
LoopDone ==
  /\ prog = "diagram" /\ at = "loop" /\ queue = <<>>
  /\ out' = Append(out, Msg("All diagrams generated successfully!", NoPath))
  /\ exitcode' = 0
  /\ at' = "exit"
  /\ UNCHANGED <<prog, pc, wvars, have_pkgs, argv, fs0, fs, mode, queue, cur,
                 opened, processed, rasterFailed, loadFailed>>

\* generate_diagram: open + json.load + wavedrom.render succeed
GdLoad ==
  /\ prog = "diagram" /\ at = "gd_load"
  /\ opened' = opened \cup {cur.json}
  /\ at' = "gd_save"
  /\ UNCHANGED <<prog, pc, wvars, have_pkgs, argv, fs0, fs, mode, queue, cur, out,
                 exitcode, processed, rasterFailed, loadFailed>>

\* generate_diagram: json.load or wavedrom.render raises; nothing catches it
GdLoadFail ==
  /\ prog = "diagram" /\ at = "gd_load"
  /\ opened' = opened \cup {cur.json}
  /\ loadFailed' = TRUE
  /\ out' = Append(out, Msg("Traceback", cur.json))
  /\ exitcode' = 1
  /\ at' = "exit"
  /\ UNCHANGED <<prog, pc, wvars, have_pkgs, argv, fs0, fs, mode, queue, cur,
                 processed, rasterFailed>>

\* generate_diagram: drawing.saveas(output_svg), then "if output_png:"
GdSaveSvg ==
  /\ prog = "diagram" /\ at = "gd_save"
  /\ fs' = [fs EXCEPT ![cur.svg] = Written("svg", cur.json)]
  /\ out' = Append(out, Msg("Generated SVG", cur.svg))
  /\ at' = IF cur.png # NoPath THEN "gd_png" ELSE "gd_ret"
  /\ UNCHANGED <<prog, pc, wvars, have_pkgs, argv, fs0, mode, queue, cur,
                 exitcode, opened, processed, rasterFailed, loadFailed>>

\* generate_diagram: the try block runs to its end
GdRaster ==
  /\ prog = "diagram" /\ at = "gd_png"
  /\ opened' = opened \cup {cur.svg}
  /\ fs' = [fs EXCEPT ![cur.png] = Written("png", cur.svg)]
  /\ out' = Append(out, Msg("Generated PNG", cur.png))
  /\ at' = "gd_ret"
  /\ UNCHANGED <<prog, pc, wvars, have_pkgs, argv, fs0, mode, queue, cur,
                 exitcode, processed, rasterFailed, loadFailed>>

\* variant: the handler lets the exception end the process
RasterHandlerReraise ==
  /\ out' = Append(out, Msg("Traceback", cur.png))
  /\ exitcode' = 1
  /\ at' = "exit"
  /\ UNCHANGED fs
\* except Exception as e: two prints, then fall out of the function
RasterHandler ==
  /\ out' = out \o <<Msg("PNG generation failed", cur.png),
                     Msg("(SVG is still available)", NoPath)>>
  /\ at' = "gd_ret"
  /\ UNCHANGED <<fs, exitcode>>

\* generate_diagram: reading the SVG back or svg2png raises an Exception
\* before anything is written to output_png; rasterFailed records the event
GdRasterFail ==
  /\ prog = "diagram" /\ at = "gd_png"
  /\ opened' = opened \cup {cur.svg}
  /\ rasterFailed' = rasterFailed \cup {cur.json}
  /\ RasterHandler
  /\ UNCHANGED <<prog, pc, wvars, have_pkgs, argv, fs0, mode, queue, cur,
                 processed, loadFailed>>

\* generate_diagram returns to its caller
GdReturn ==
  /\ prog = "diagram" /\ at = "gd_ret"
  /\ processed' = Append(processed, cur.json)
  /\ IF mode = "batch"
     THEN at' = "loop" /\ UNCHANGED exitcode
     ELSE at' = "exit" /\ exitcode' = 0
  /\ UNCHANGED <<prog, pc, wvars, have_pkgs, argv, fs0, fs, mode, queue, cur, out,
                 opened, rasterFailed, loadFailed>>

(* ---------------- specification ---------------- *)

RECURSIVE SeqsUpTo(_, _)
SeqsUpTo(S, n) ==
  IF n = 0 THEN {<<>>}
  ELSE LET shorter == SeqsUpTo(S, n - 1)
       IN shorter \cup {Append(q, x) : q \in shorter, x \in S}

InitWave ==
  /\ freq_bin = 0 /\ sine_wave = <<>> /\ dc_signal = <<>>
  /\ data_valid = <<>> /\ state = <<>> /\ busy = <<>>
  /\ data_valid_out = <<>> /\ magnitude_out = <<>>
  /\ title = "" /\ axes = <<>> /\ saved = <<>>

InitDiagramIdle ==
  /\ have_pkgs = TRUE /\ argv = <<>> /\ mode = "none"
  /\ fs = [p \in Paths |-> Absent] /\ fs0 = fs
  /\ queue = <<>> /\ cur = [json |-> NoPath, svg |-> NoPath, png |-> NoPath]
  /\ out = <<>> /\ exitcode = 0 /\ opened = {} /\ processed = <<>>
  /\ rasterFailed = {} /\ loadFailed = FALSE

Init ==
  \/ /\ prog = "waveforms" /\ pc = 1 /\ at = "none"
     /\ InitWave /\ InitDiagramIdle
  \/ /\ prog = "diagram" /\ pc = 0 /\ at = "import"
     /\ InitWave
     /\ have_pkgs \in BOOLEAN
     /\ argv \in SeqsUpTo(ArgPaths, MaxArgs)
     /\ \E present \in SUBSET JsonDocs, oldsvg \in BOOLEAN :
          fs = [p \in Paths |->
                  IF p \in present THEN Orig
                  ELSE IF oldsvg /\ p = Path("docs", 1, "svg") THEN Orig
                  ELSE Absent]
     /\ fs0 = fs
     /\ mode = "none" /\ queue = <<>>
     /\ cur = [json |-> NoPath, svg |-> NoPath, png |-> NoPath]
     /\ out = <<>> /\ exitcode = 0 /\ opened = {} /\ processed = <<>>
     /\ rasterFailed = {} /\ loadFailed = FALSE

Next ==
  \/ GenSineStep \/ GenDcStep \/ GenDataValidStep \/ GenStateStep
  \/ GenBusyStep \/ GenDataValidOutStep \/ GenMagnitudeStep
  \/ SetupPlotStep \/ PlotDigitalStep \/ PlotAnalogStep \/ PlotStateStep
  \/ SaveFigStep
  \/ ImportOk \/ ImportFail \/ MainBatch \/ MainSingle \/ MainUsage
  \/ GlobStep \/ LoopNext \/ LoopDone
  \/ GdLoad \/ GdLoadFail \/ GdSaveSvg \/ GdRaster \/ GdRasterFail \/ GdReturn

Spec == Init /\ [][Next]_vars

(* ---------------- properties ---------------- *)

Finished == prog = "waveforms" /\ pc = Len(Script) + 1

\* the panel of a diagram that carries a given y-label
HasPanel(panels, label) == \E j \in 1..Len(panels) : panels[j].label = label
PanelOf(panels, label) ==
  panels[CHOOSE j \in 1..Len(panels) : panels[j].label = label]

Diagrams == {saved[d] : d \in 1..Len(saved)}
DiagramOf(file) == CHOOSE d \in Diagrams : d.file = file
IsSaved(file) == \E d \in Diagrams : d.file = file

Count(s, v) == Cardinality({i \in 1..Len(s) : s[i] = v})

StateTimeline(s) ==
  /\ Len(s) = N + 5
  /\ \A i \in 0..(N + 4) :
       s[i + 1] = IF i < 2 \/ i >= N + 3 THEN IDLE
                  ELSE IF i < N + 2 THEN PROCESSING ELSE CALC
  /\ \A i \in 1..(Len(s) - 1) :
       s[i] # s[i + 1] =>
         <<s[i], s[i + 1]>> \in {<<IDLE, PROCESSING>>, <<PROCESSING, CALC>>,
                                 <<CALC, IDLE>>}
  /\ Count(s, PROCESSING) = N
  /\ Count(s, CALC) = 1

\* C1: the discrete-state signal has length N+5, is IDLE on [0,2) and
\* [N+3,N+5), PROCESSING on [2,N+2), CALC on [N+2,N+3); its only changes are
\* IDLE->PROCESSING->CALC->IDLE, PROCESSING lasts N cycles and CALC one; this
\* holds for the state panel of every diagram.
C1_StateTimeline ==
  /\ state # <<>> => StateTimeline(state)
  /\ \A d \in Diagrams :
       /\ HasPanel(d.panels, "FSM State")
       /\ PanelOf(d.panels, "FSM State").kind = "state"
       /\ StateTimeline(PanelOf(d.panels, "FSM State").values)

C1_Witness ==
  /\ Finished /\ Len(saved) = 4
  /\ \A d \in Diagrams : PanelOf(d.panels, "FSM State").values = state

BusyMatchesState(b, s) ==
  /\ Len(b) = N + 5 /\ Len(s) = N + 5
  /\ \A i \in 0..(N + 4) :
       /\ b[i + 1] \in {0, 1}
       /\ b[i + 1] = 1 <=> s[i + 1] \in {PROCESSING, CALC}
       /\ b[i + 1] = 1 <=> (2 <= i /\ i < N + 3)

\* C2: in every diagram busy is 1 exactly on the cycles where the state is
\* PROCESSING or CALC, i.e. exactly on [2, N+3).
C2_BusyIffActive ==
  /\ (busy # <<>> /\ state # <<>>) => BusyMatchesState(busy, state)
  /\ \A d \in Diagrams :
       /\ HasPanel(d.panels, "busy")
       /\ BusyMatchesState(PanelOf(d.panels, "busy").values,
                           PanelOf(d.panels, "FSM State").values)

C2_Witness ==
  /\ Finished /\ Len(saved) = 4
  /\ \A d \in Diagrams : PanelOf(d.panels, "busy").values[3] = 1

ValidOutPulse(v, s, b) ==
  /\ Len(v) = N + 5
  /\ \A i \in 0..(N + 4) : v[i + 1] = IF i = N + 2 THEN 1 ELSE 0
  /\ \A i \in 0..(N + 4) : v[i + 1] = 1 <=> s[i + 1] = CALC
  /\ \A i \in 0..(N + 4) : v[i + 1] = 1 => b[i + 1] = 1

\* C3: in every diagram output-valid is 1 at cycle N+2 only, the one CALC
\* cycle, and is never 1 while busy is 0.
C3_ValidOutSinglePulse ==
  /\ (data_valid_out # <<>>) => ValidOutPulse(data_valid_out, state, busy)
  /\ \A d \in Diagrams :
       /\ HasPanel(d.panels, "data_valid_out")
       /\ ValidOutPulse(PanelOf(d.panels, "data_valid_out").values,
                        PanelOf(d.panels, "FSM State").values,
                        PanelOf(d.panels, "busy").values)

C3_Witness ==
  /\ Finished /\ Len(saved) = 4
  /\ \A d \in Diagrams : PanelOf(d.panels, "data_valid_out").values[N + 3] = 1

\* the sixth panel of a per-frequency diagram draws magnitude_out
MagnitudeOf(d) == d.panels[6].values

ExpectedMagnitude(file) ==
  IF file = "build/timing_diagram_target_freq.png" THEN TargetMagnitude ELSE 0

\* C4: the magnitude panel has length N+5; in the target-bin diagram it is 0
\* on [0,N+2) and 229712 on [N+2,N+5); in the off-target and DC diagrams it is
\* 0 everywhere; it is never non-zero before the output-valid pulse.
C4_MagnitudePerScenario ==
  \A d \in Diagrams :
    Len(d.panels) = 6 =>
      LET m == MagnitudeOf(d)
          v == PanelOf(d.panels, "data_valid_out").values
      IN /\ d.panels[6].kind = "analog"
         /\ Len(m) = N + 5
         /\ \A i \in 0..(N + 4) :
              m[i + 1] = IF i < N + 2 THEN 0 ELSE ExpectedMagnitude(d.file)
         /\ \A i \in 1..Len(m) :
              m[i] # 0 => \E j \in 1..i : v[j] = 1

C4_Witness ==
  /\ Finished
  /\ IsSaved("build/timing_diagram_target_freq.png")
  /\ IsSaved("build/timing_diagram_off_target.png")
  /\ IsSaved("build/timing_diagram_dc.png")
  /\ MagnitudeOf(DiagramOf("build/timing_diagram_target_freq.png"))[N + 5]
       = TargetMagnitude
  /\ MagnitudeOf(DiagramOf("build/timing_diagram_dc.png"))[N + 5] = 0

InputLabels == {"data_valid_in", "data_in (Analog)", "data_in (DC Constant)"}

RECURSIVE MaxLen(_)
MaxLen(panels) ==
  IF panels = <<>> THEN 0
  ELSE LET r == MaxLen(Tail(panels))
           h == Len(Head(panels).values)
       IN IF h > r THEN h ELSE r

\* C5 as stated: all signals composed into one diagram have the same
\* length, the maximum sequence length of the diagram.
C5_EqualLengths ==
  \A d \in Diagrams :
    \A j \in 1..Len(d.panels) :
       Len(d.panels[j].values) = MaxLen(d.panels)

\* C5 amended: in every diagram each signal is as long as its own time
\* base; the state, busy, output-valid and magnitude signals have length N+5
\* (the maximum), the input-valid and analog-input signals have length N.
C5_TwoLengths ==
  \A d \in Diagrams :
    /\ MaxLen(d.panels) = N + 5
    /\ \A j \in 1..Len(d.panels) :
         /\ d.panels[j].kind # "none"
         /\ Len(d.panels[j].values) = d.panels[j].tlen
         /\ Len(d.panels[j].values) =
              IF d.panels[j].label \in InputLabels THEN N ELSE N + 5

C5_Witness ==
  /\ Finished /\ Len(saved) = 4
  /\ \A d \in Diagrams :
       /\ Len(PanelOf(d.panels, "data_valid_in").values) = N
       /\ Len(PanelOf(d.panels, "busy").values) = N + 5

InputValid(v) ==
  /\ Len(v) = N
  /\ \A i \in 0..(N - 1) : v[i + 1] = i % 2

\* C9: the input-valid signal has length N, is 0 at even and 1 at odd
\* indices, and is that same sequence in all four diagrams whatever k is.
C9_InputValidAlternates ==
  /\ data_valid # <<>> => InputValid(data_valid)
  /\ \A d \in Diagrams :
       /\ HasPanel(d.panels, "data_valid_in")
       /\ InputValid(PanelOf(d.panels, "data_valid_in").values)
  /\ \A d1, d2 \in Diagrams :
       PanelOf(d1.panels, "data_valid_in").values
         = PanelOf(d2.panels, "data_valid_in").values

C9_Witness ==
  /\ Finished /\ Len(saved) = 4 /\ freq_bin = 10
  /\ PanelOf(saved[2].panels, "data_valid_in").values[2] = 1
  /\ PanelOf(saved[2].panels, "data_valid_in").values[1] = 0

\* C10 as stated: at export time every digital panel's x-range is
\* [0, len(values)] of the signal that panel draws.
C10_DigitalXlimOwnLength ==
  \A d \in Diagrams :
    \A j \in 1..Len(d.panels) :
       d.panels[j].kind = "digital" =>
         d.panels[j].xlim = <<0, Len(d.panels[j].values)>>

\* C10 amended: at export time every panel of a diagram has the x-range
\* [0, N+5], the length of the signal plotted last; this is [0, len(values)]
\* for the busy and output-valid panels and is 5 more than len(values) for
\* the length-N input-valid panel.
C10_SharedXlim ==
  \A d \in Diagrams :
    \A j \in 1..Len(d.panels) :
       /\ d.panels[j].xlim = <<0, N + 5>>
       /\ d.panels[j].xlim = <<0, Len(d.panels[Len(d.panels)].values)>>
       /\ d.panels[j].label \in {"busy", "data_valid_out"} =>
            d.panels[j].xlim = <<0, Len(d.panels[j].values)>>
       /\ d.panels[j].label = "data_valid_in" =>
            d.panels[j].xlim = <<0, Len(d.panels[j].values) + 5>>

C10_Witness ==
  /\ Finished /\ Len(saved) = 4
  /\ \A d \in Diagrams : d.panels[1].kind = "digital" /\ d.panels[1].tlen = N

ExpectedMode(nargs) ==
  IF nargs = 0 THEN "batch"
  ELSE IF nargs = 2 \/ nargs = 3 THEN "single"
  ELSE "usage"

\* C6: zero arguments run batch mode, two or three run single-file mode,
\* any other count prints the usage, exits with status 1 and neither reads
\* nor writes a file.
C6_ArgCountDispatch ==
  (prog = "diagram" /\ mode # "none") =>
    /\ mode = ExpectedMode(Len(argv))
    /\ ExpectedMode(Len(argv)) = "usage" =>
         /\ at = "exit" /\ exitcode = 1
         /\ out = <<Msg("Usage:", NoPath)>>
         /\ opened = {} /\ fs = fs0

RasterWarning ==
  <<Msg("PNG generation failed", cur.png), Msg("(SVG is still available)", NoPath)>>

\* C7: a failing rasterization is reported as a warning, leaves the
\* written vector file as it is, does not end the process, and
\* generate_diagram returns; a batch run in which nothing but rasterizations
\* fail processes every description file and ends with the success message.
C7_RasterStep ==
  rasterFailed' # rasterFailed =>
    /\ fs' = fs
    /\ fs[cur.svg] = Written("svg", cur.json)
    /\ out' = out \o RasterWarning
    /\ at' = "gd_ret"
    /\ exitcode' = exitcode

C7_BatchCompletes ==
  /\ \A j \in rasterFailed :
       mode = "batch" => fs[Path("docs", j.stem, "svg")] = Written("svg", j)
  /\ (prog = "diagram" /\ mode = "batch" /\ at = "exit" /\ ~loadFailed
        /\ Glob(fs0, "docs") # {}) =>
       /\ exitcode = 0
       /\ processed = Sorted(Glob(fs0, "docs"))
       /\ out[Len(out)] = Msg("All diagrams generated successfully!", NoPath)

C7_RasterFailureTolerated == []C7_BatchCompletes /\ [][C7_RasterStep]_vars

C7_Witness ==
  /\ prog = "diagram" /\ mode = "batch" /\ at = "exit" /\ exitcode = 0
  /\ Len(processed) >= 2
  /\ processed[1] \in rasterFailed
  /\ fs[Path("build", processed[1].stem, "png")] = Absent
  /\ fs[Path("docs", processed[1].stem, "svg")] = Written("svg", processed[1])

\* C8: a single-file run whose input path does not exist reports the path,
\* exits with status 1, and neither opens nor writes any file.
C8_MissingInputWritesNothing ==
  (prog = "diagram" /\ mode = "single" /\ ~Exists(fs0, argv[1])) =>
    /\ at = "exit" /\ exitcode = 1
    /\ out = <<Msg("ERROR: Input file not found", argv[1])>>
    /\ fs = fs0
    /\ opened = {} /\ processed = <<>>

C8_Witness ==
  /\ prog = "diagram" /\ mode = "single" /\ ~Exists(fs0, argv[1])
  /\ at = "exit" /\ exitcode = 1 /\ Len(argv) = 3
  /\ argv[2] # argv[1] /\ fs[argv[2]] = fs0[argv[2]] /\ fs[argv[3]] = Absent
====
